---- MODULE Spec2Model ----
(***************************************************************************)
(* WebsiteStatusChecker: the React component that normalises a website     *)
(* address, posts it to the uptime-check service, and keeps the displayed  *)
(* result and a rolling history of the last results.                       *)
(*                                                                         *)
(* JavaScript strings that the code inspects character by character (the   *)
(* text of the input field, URLs) are sequences of one-character strings.  *)
(* Strings the code only builds or compares whole (messages, the status    *)
(* words of the service) are TLA+ strings.                                 *)
(***************************************************************************)
EXTENDS Integers, Sequences, FiniteSets, TLC

VARIABLES url, status, loading, error, history, calls, now, results

vars == <<url, status, loading, error, history, calls, now, results>>

-----------------------------------------------------------------------------
(* Bounds of the model.                                                    *)

\* Date.now() / new Date() is read as a clock in 0..MaxTime.
MaxTime == 1

\* Longest text after the scheme in the texts of the URL specification.
MaxBodyLen == 3

-----------------------------------------------------------------------------
(* Strings.                                                                *)

HTTP == <<"h", "t", "t", "p", ":", "/", "/">>
HTTPS == <<"h", "t", "t", "p", "s", ":", "/", "/">>

\* String.prototype.startsWith
startsWith(s, p) == Len(s) >= Len(p) /\ SubSeq(s, 1, Len(p)) = p

\* White space of String.prototype.trim that the modelled texts can hold.
WhiteSpace == {" "}

RECURSIVE trimStart(_)
trimStart(s) ==
    IF s # <<>> /\ Head(s) \in WhiteSpace THEN trimStart(Tail(s)) ELSE s

RECURSIVE trimEnd(_)
trimEnd(s) ==
    IF s # <<>> /\ s[Len(s)] \in WhiteSpace
    THEN trimEnd(SubSeq(s, 1, Len(s) - 1)) ELSE s

\* String.prototype.trim
trim(s) == trimEnd(trimStart(s))

-----------------------------------------------------------------------------
(* JavaScript values whose type the code does not fix: a tag and, for      *)
(* strings, numbers and booleans, the value.                               *)

null == [t |-> "null"]
undefined == [t |-> "undefined"]
Str(s) == [t |-> "string", v |-> s]
Num(n) == [t |-> "number", v |-> n]
Bool(b) == [t |-> "boolean", v |-> b]

\* ToBoolean, as applied by !x and x || y
Truthy(x) ==
    CASE x.t = "string" -> x.v # <<>>
      [] x.t = "number" -> x.v # 0
      [] x.t = "boolean" -> x.v
      [] OTHER -> FALSE

\* x || y
Or(x, y) == IF Truthy(x) THEN x ELSE y

-----------------------------------------------------------------------------
(* new URL(urlString), for the strings validateUrl hands it: they start    *)
(* with "http://" or "https://" and are made of ASCII letters, ASCII       *)
(* digits, ".", ":", "/" and " ".  The constructor throws exactly when the *)
(* URL parser fails.                                                       *)

Digits == {"0", "1", "2", "3", "4", "5", "6", "7", "8", "9"}

DigitValue(c) ==
    CASE c = "0" -> 0 [] c = "1" -> 1 [] c = "2" -> 2 [] c = "3" -> 3
      [] c = "4" -> 4 [] c = "5" -> 5 [] c = "6" -> 6 [] c = "7" -> 7
      [] c = "8" -> 8 [] c = "9" -> 9

\* Code points that end the authority of a special URL.
AuthorityEnd == {"/", "?", "#", "\\"}

\* Forbidden domain code points among the characters above and the usual
\* punctuation.
ForbiddenHost ==
    {" ", "#", "/", ":", "<", ">", "?", "@", "[", "\\", "]", "^", "|", "%"}

\* Largest port number.
MaxPort == 65535

\* The input with the scheme and its ":" removed.
afterScheme(s) ==
    IF startsWith(s, HTTPS) THEN SubSeq(s, 7, Len(s)) ELSE SubSeq(s, 6, Len(s))

\* special authority slashes / special authority ignore slashes states
RECURSIVE dropSlashes(_)
dropSlashes(s) ==
    IF s # <<>> /\ Head(s) \in {"/", "\\"} THEN dropSlashes(Tail(s)) ELSE s

\* authority state: the text up to the first code point that ends it
RECURSIVE authority(_)
authority(s) ==
    IF s = <<>> \/ Head(s) \in AuthorityEnd THEN <<>>
    ELSE <<Head(s)>> \o authority(Tail(s))

\* The text before the first c (all of it when there is none).
RECURSIVE before(_, _)
before(s, c) ==
    IF s = <<>> \/ Head(s) = c THEN <<>> ELSE <<Head(s)>> \o before(Tail(s), c)

\* The parts of s between the occurrences of c.
RECURSIVE split(_, _)
split(s, c) ==
    LET first == before(s, c)
    IN  IF Len(first) = Len(s) THEN <<first>>
        ELSE <<first>> \o split(SubSeq(s, Len(first) + 2, Len(s)), c)

allDigits(s) == \A i \in 1..Len(s) : s[i] \in Digits

\* The number a string of digits denotes in radix R.
RECURSIVE number(_, _)
number(s, R) ==
    IF s = <<>> THEN 0
    ELSE number(SubSeq(s, 1, Len(s) - 1), R) * R + DigitValue(s[Len(s)])

RECURSIVE power(_, _)
power(b, e) == IF e = 0 THEN 1 ELSE b * power(b, e - 1)

\* port state: digits only, at most MaxPort; an empty port is accepted
portOk(p) == allDigits(p) /\ number(p, 10) <= MaxPort

\* The parts of a host for the IPv4 parser: one trailing empty part removed.
ipv4Parts(host) ==
    LET parts == split(host, ".")
    IN  IF Len(parts) > 1 /\ parts[Len(parts)] = <<>>
        THEN SubSeq(parts, 1, Len(parts) - 1) ELSE parts

\* ends-in-a-number checker
endsInNumber(host) ==
    LET parts == ipv4Parts(host)
        last == parts[Len(parts)]
    IN  last # <<>> /\ allDigits(last)

\* IPv4 number parser: a leading "0" makes the number octal
ipv4NumberOk(part) ==
    /\ part # <<>>
    /\ allDigits(part)
    /\ (Len(part) >= 2 /\ part[1] = "0") =>
            \A i \in 1..Len(part) : part[i] \notin {"8", "9"}

ipv4Number(part) ==
    IF Len(part) >= 2 /\ part[1] = "0" THEN number(part, 8) ELSE number(part, 10)

\* IPv4 parser.  The last number must be below 256^(5 - n); the quotient by
\* 256 is compared so that the limit stays within TLC's integers.
ipv4Ok(host) ==
    LET parts == ipv4Parts(host)
        n == Len(parts)
    IN  /\ n <= 4
        /\ \A i \in 1..n : ipv4NumberOk(parts[i])
        /\ \A i \in 1..(n - 1) : ipv4Number(parts[i]) <= 255
        /\ ipv4Number(parts[n]) \div 256 < power(256, 4 - n)

\* host parser of a special URL
hostOk(host) ==
    /\ host # <<>>
    /\ \A i \in 1..Len(host) : host[i] \notin ForbiddenHost
    /\ endsInNumber(host) => ipv4Ok(host)

\* Leading and trailing spaces are removed before the URL is parsed.
\* TRUE when new URL(s) returns, FALSE when it throws.
URL(s) ==
    LET input == trim(s)
        auth == authority(dropSlashes(afterScheme(input)))
        host == before(auth, ":")
    IN  /\ hostOk(host)
        /\ Len(host) < Len(auth) =>
                portOk(SubSeq(auth, Len(host) + 2, Len(auth)))

-----------------------------------------------------------------------------
(* validateUrl                                                             *)

\* A variant that adds the protocol to every text.
addProtocolAlways(urlString) == HTTPS \o urlString

\* "Add protocol if missing"
addProtocol(urlString) ==
    IF ~startsWith(urlString, HTTP) /\ ~startsWith(urlString, HTTPS)
    THEN HTTPS \o urlString ELSE urlString

\* A variant that validates the completed address and returns the text as
\* it was given.
validateUrlOriginal(urlString) ==
    IF URL(addProtocol(urlString)) THEN Str(urlString) ELSE null

validateUrl(urlString) ==
    IF URL(addProtocol(urlString)) THEN Str(addProtocol(urlString)) ELSE null

-----------------------------------------------------------------------------
(* The component's data.                                                   *)

UP == <<"U", "P">>
DOWN == <<"D", "O", "W", "N">>

GOOGLE == <<"g", "o", "o", "g", "l", "e", ".", "c", "o", "m">>
FACEBOOK == <<"f", "a", "c", "e", "b", "o", "o", "k", ".", "c", "o", "m">>
YOUTUBE == <<"y", "o", "u", "t", "u", "b", "e", ".", "c", "o", "m">>
TWITTER == <<"t", "w", "i", "t", "t", "e", "r", ".", "c", "o", "m">>
AMAZON == <<"a", "m", "a", "z", "o", "n", ".", "c", "o", "m">>
NETFLIX == <<"n", "e", "t", "f", "l", "i", "x", ".", "c", "o", "m">>
LINKEDIN == <<"l", "i", "n", "k", "e", "d", "i", "n", ".", "c", "o", "m">>
GITHUB == <<"g", "i", "t", "h", "u", "b", ".", "c", "o", "m">>

popularSitesLeft == <<GOOGLE, FACEBOOK, YOUTUBE, TWITTER>>
popularSitesRight == <<AMAZON, NETFLIX, LINKEDIN, GITHUB>>

\* prev.slice(0, HistoryKeep) keeps the newest entries when one is added.
HistoryKeep == 4

\* Array.prototype.slice(from, to) for 0 <= from <= to
slice(a, from, to) ==
    SubSeq(a, from + 1, IF to < Len(a) THEN to ELSE Len(a))

\* A variant in which the controls are never disabled.
disabledNever == FALSE

\* Every control of the page carries disabled={loading}.
disabled == loading

\* response.ok
ok(response) == response.status \in 200..299

\* data.name: the property when the body is an object that has it
get(data, name) == IF name \in DOMAIN data THEN data[name] ELSE undefined

\* new Date(ms).toISOString(): the text of the instant
toISOString(ms) == [t |-> "string", iso |-> ms]

\* A variant that prefers responseTime to response_time.
resultSwapped(validatedUrl, data, date) ==
    [url |-> validatedUrl,
     status |-> Or(get(data, "status"),
                   IF Truthy(get(data, "is_up")) THEN Str(UP) ELSE Str(DOWN)),
     responseTime |-> Or(Or(get(data, "responseTime"),
                            get(data, "response_time")), Num(0)),
     timestamp |-> toISOString(date),
     statusCode |-> Or(get(data, "status_code"), get(data, "statusCode")),
     message |-> Or(get(data, "message"), Str(<<>>))]

\* The display record built from the parsed body.
result(validatedUrl, data, date) ==
    [url |-> validatedUrl,
     status |-> Or(get(data, "status"),
                   IF Truthy(get(data, "is_up")) THEN Str(UP) ELSE Str(DOWN)),
     responseTime |-> Or(Or(get(data, "response_time"),
                            get(data, "responseTime")), Num(0)),
     timestamp |-> toISOString(date),
     statusCode |-> Or(get(data, "status_code"), get(data, "statusCode")),
     message |-> Or(get(data, "message"), Str(<<>>))]

\* { ...result, id }
entry(res, id) ==
    [url |-> res.url, status |-> res.status, responseTime |-> res.responseTime,
     timestamp |-> res.timestamp, statusCode |-> res.statusCode,
     message |-> res.message, id |-> id]

\* results counts up to two more than are kept: beyond a full history and
\* one entry dropped from it, a further result changes nothing it counts.
MaxResults == HistoryKeep + 2

\* A variant that keeps one entry more.
addToHistoryKeepFive(prev, res, id) ==
    <<entry(res, id)>> \o slice(prev, 0, HistoryKeep + 1)

\* A variant that adds the entry at the end.
addToHistoryAtEnd(prev, res, id) ==
    slice(prev, 0, HistoryKeep) \o <<entry(res, id)>>

\* prev => [{ ...result, id: Date.now() }, ...prev.slice(0, 4)]
addToHistory(prev, res, id) ==
    <<entry(res, id)>> \o slice(prev, 0, HistoryKeep)

\* `Failed to check website: ${err.message}. Please try again.`
failed(message) ==
    "Failed to check website: " \o message \o ". Please try again."

\* `HTTP error! status: ${response.status}`
httpError(response) == "HTTP error! status: " \o ToString(response.status)

\* The message of the TypeError of reading a property of null.
nullError == "Cannot read properties of null (reading 'status')"

-----------------------------------------------------------------------------------------------------------------------------------------------------
(* State.  url, status, loading, error and history are the component's     *)
(* React state.  calls holds the invocations of checkWebsite that are      *)
(* suspended at an await, in the order they started: the constants of the  *)
(* invocation, the await it is at, the payloads it has handed to fetch     *)
(* and, once fetch has settled, the response.  now is the last reading of  *)
(* the clock.  results counts the display records built so far, up to      *)
(* MaxResults.                                                             *)

Init ==
    /\ url = <<>>
    /\ status = null
    /\ loading = FALSE
    /\ error = ""
    /\ history = <<>>
    /\ calls = <<>>
    /\ now = 0
    /\ results = 0

remove(s, i) == SubSeq(s, 1, i - 1) \o SubSeq(s, i + 1, Len(s))

\* onChange={(e) => setUrl(e.target.value)}
setUrl(value) ==
    /\ ~disabled
    /\ url' = value
    /\ UNCHANGED <<status, loading, error, history, calls, now, results>>

\* A variant that also clears the displayed result.
rejectAndClear(message) ==
    /\ error' = message
    /\ status' = null
    /\ UNCHANGED <<url, loading, history, calls, now, results>>

\* setError(message); return;
reject(message) ==
    /\ error' = message
    /\ UNCHANGED <<url, status, loading, history, calls, now, results>>

\* The invocation as it is suspended at await fetch(...).
call(targetUrl, validatedUrl) ==
    [targetUrl |-> targetUrl,
     validatedUrl |-> validatedUrl,
     pc |-> "fetch",
     sent |-> <<[url |-> validatedUrl]>>,
     response |-> undefined]

\* A variant that does not clear the displayed result when a check starts.
checkWebsiteKeepStatus(urlOverride) ==
    LET targetUrl == IF Truthy(urlOverride) THEN urlOverride.v ELSE url
        validatedUrl == validateUrl(trim(targetUrl))
    IN  IF trim(targetUrl) = <<>>
        THEN reject("Please enter a website URL")
        ELSE IF ~Truthy(validatedUrl)
        THEN reject("Please enter a valid URL")
        ELSE /\ url' = IF Truthy(urlOverride) THEN urlOverride.v ELSE url
             /\ loading' = TRUE
             /\ error' = ""
             /\ calls' = Append(calls, call(targetUrl, validatedUrl.v))
             /\ UNCHANGED <<status, history, now, results>>

\* A variant that prefers the text of the input field to the override:
\* url || urlOverride.
checkWebsiteUrlFirst(urlOverride) ==
    LET targetUrl == IF url # <<>> THEN url
                     ELSE IF Truthy(urlOverride) THEN urlOverride.v ELSE <<>>
        validatedUrl == validateUrl(trim(targetUrl))
    IN  IF trim(targetUrl) = <<>>
        THEN reject("Please enter a website URL")
        ELSE IF ~Truthy(validatedUrl)
        THEN reject("Please enter a valid URL")
        ELSE /\ url' = IF Truthy(urlOverride) THEN urlOverride.v ELSE url
             /\ loading' = TRUE
             /\ error' = ""
             /\ status' = null
             /\ calls' = Append(calls, call(targetUrl, validatedUrl.v))
             /\ UNCHANGED <<history, now, results>>

\* checkWebsite, from its call to its first await or early return.
checkWebsite(urlOverride) ==
    LET targetUrl == IF Truthy(urlOverride) THEN urlOverride.v ELSE url
        validatedUrl == validateUrl(trim(targetUrl))
    IN  IF trim(targetUrl) = <<>>
        THEN reject("Please enter a website URL")
        ELSE IF ~Truthy(validatedUrl)
        THEN reject("Please enter a valid URL")
        ELSE /\ url' = IF Truthy(urlOverride) THEN urlOverride.v ELSE url
             /\ loading' = TRUE
             /\ error' = ""
             /\ status' = null
             /\ calls' = Append(calls, call(targetUrl, validatedUrl.v))
             /\ UNCHANGED <<history, now, results>>

\* The "Check Status" button: onClick={() => checkWebsite()}
clickCheck ==
    /\ ~disabled
    /\ checkWebsite(null)

\* handleKeyPress on the input field
handleKeyPress(key) ==
    /\ ~disabled
    /\ IF key = "Enter" THEN checkWebsite(null) ELSE UNCHANGED vars

\* QuickLinkButton: onClick={() => checkWebsite(site.url)}
QuickLinkButton(site) ==
    /\ ~disabled
    /\ checkWebsite(Str(site))

\* A variant that calls fetch again after a failure.
catchRetry(i, message) ==
    /\ error' = failed(message)
    /\ calls' = [calls EXCEPT ![i].pc = "fetch",
                              ![i].sent = Append(@, [url |-> calls[i].validatedUrl])]
    /\ UNCHANGED <<url, status, loading, history, now, results>>

\* A variant that records a failed check as a site that is down.
catchAsDown(i, message) ==
    /\ error' = failed(message)
    /\ loading' = FALSE
    /\ calls' = remove(calls, i)
    /\ history' = <<[url |-> calls[i].validatedUrl, status |-> Str(DOWN),
                     responseTime |-> Num(0), timestamp |-> toISOString(now),
                     statusCode |-> undefined, message |-> Str(<<>>),
                     id |-> Num(now)]>> \o slice(history, 0, HistoryKeep)
    /\ UNCHANGED <<url, status, now, results>>

\* A variant without the finally block.
catchNoFinally(i, message) ==
    /\ error' = failed(message)
    /\ calls' = remove(calls, i)
    /\ UNCHANGED <<url, status, loading, history, now, results>>

\* A variant that only logs the error.
catchSilent(i, message) ==
    /\ loading' = FALSE
    /\ calls' = remove(calls, i)
    /\ UNCHANGED <<url, status, error, history, now, results>>

\* catch (err) { setError(...) } finally { setLoading(false) }
catch(i, message) ==
    /\ error' = failed(message)
    /\ loading' = FALSE
    /\ calls' = remove(calls, i)
    /\ UNCHANGED <<url, status, history, now, results>>

\* await fetch(...) settles with a response
fetchResolves(i, response) ==
    /\ i \in 1..Len(calls)
    /\ calls[i].pc = "fetch"
    /\ IF ~ok(response)
       THEN catch(i, httpError(response))
       ELSE /\ calls' = [calls EXCEPT ![i].pc = "json", ![i].response = response]
            /\ UNCHANGED <<url, status, loading, error, history, now, results>>

\* await fetch(...) rejects: the network call failed
fetchRejects(i, message) ==
    /\ i \in 1..Len(calls)
    /\ calls[i].pc = "fetch"
    /\ catch(i, message)

\* await response.json() settles with the value the body denotes; new Date()
\* and, in the history update, Date.now() read the clock at date and then
\* at id.
jsonResolves(i, date, id) ==
    /\ i \in 1..Len(calls)
    /\ calls[i].pc = "json"
    /\ now <= date /\ date <= id
    /\ LET data == calls[i].response.body
       IN  IF data = null
           THEN catch(i, nullError)
           ELSE /\ status' = result(calls[i].validatedUrl, data, date)
                /\ history' = addToHistory(history, status', Num(id))
                /\ loading' = FALSE
                /\ calls' = remove(calls, i)
                /\ now' = id
                /\ results' = IF results < MaxResults THEN results + 1 ELSE results
                /\ UNCHANGED <<url, error>>

\* await response.json() rejects: the body cannot be read or is not JSON
jsonRejects(i, message) ==
    /\ i \in 1..Len(calls)
    /\ calls[i].pc = "json"
    /\ catch(i, message)

-----------------------------------------------------------------------------
(* What the user and the service can supply.                               *)

\* Texts typed into the input field: empty, blank, not a URL, and a padded
\* address without a scheme.
Texts ==
    {<<>>, <<" ">>, <<"a", " ", "b">>, <<" ", "a", ".", "b", " ">>}

\* Keys pressed in the input field.
Keys == {"Enter", "a"}

\* The quick links clicked.
Sites == {popularSitesLeft[1]}

\* HTTP statuses of the service's responses.
Statuses == {200, 500}

\* Messages of the error fetch rejects with.
FetchErrors == {"Failed to fetch"}

\* Messages of the error response.json() rejects with.
JsonErrors == {"Unexpected token < in JSON at position 0"}

\* A JSON object with the properties the component reads; undefined stands
\* for a property the object does not have.
Body(st, up, rt, rT, sc, sC, msg) ==
    [status |-> st, is_up |-> up, response_time |-> rt, responseTime |-> rT,
     status_code |-> sc, statusCode |-> sC, message |-> msg]

\* Parsed bodies: null, and a body that names its status.
Bodies ==
    {null,
     Body(Str(UP), undefined, Num(5), undefined, Num(200), undefined, undefined)}

Responses(bodies) == [status : Statuses, body : bodies]

Clock == 0..MaxTime

\* The user's events.
User(texts, sites) ==
    \/ \E value \in texts : setUrl(value)
    \/ clickCheck
    \/ \E key \in Keys : handleKeyPress(key)
    \/ \E site \in sites : QuickLinkButton(site)

\* The settling of the awaited promises.
Settle(bodies) ==
    \/ \E i \in 1..Len(calls), response \in Responses(bodies) :
            fetchResolves(i, response)
    \/ \E i \in 1..Len(calls), message \in FetchErrors : fetchRejects(i, message)
    \/ \E i \in 1..Len(calls), date \in Clock, id \in Clock :
            jsonResolves(i, date, id)
    \/ \E i \in 1..Len(calls), message \in JsonErrors : jsonRejects(i, message)

Next == User(Texts, Sites) \/ Settle(Bodies)

Spec == Init /\ [][Next]_vars

\* The settling of the awaited promises is all that can happen while a
\* check is in flight, and a promise that can settle does.
FairSpec == Spec /\ WF_vars(Settle(Bodies))

-----------------------------------------------------------------------------
(* The first check of a session, over many typed texts.                    *)

\* Characters of the typed texts.
UrlChars == {"a", "1", ".", ":", "/", " "}

FTP == <<"f", "t", "p", ":", "/", "/">>
HTTPUpper == <<"H", "T", "T", "P", ":", "/", "/">>

\* What a typed text starts with: nothing, or a scheme and "//".
Schemes == {<<>>, HTTP, HTTPS, FTP, HTTPUpper}

Tails == UNION {[1..k -> UrlChars] : k \in 0..MaxBodyLen}

UrlTexts == {scheme \o tail : scheme \in Schemes, tail \in Tails}

\* The user has typed a text.
InitUrl ==
    /\ url \in UrlTexts
    /\ status = null
    /\ loading = FALSE
    /\ error = ""
    /\ history = <<>>
    /\ calls = <<>>
    /\ now = 0
    /\ results = 0

\* Nothing is taken up after the first result.
First(A) == history = <<>> /\ A

NextUrl ==
    \/ First(clickCheck)
    \/ \E key \in Keys : First(handleKeyPress(key))
    \/ \E response \in Responses(Bodies) : First(fetchResolves(1, response))
    \/ \E message \in FetchErrors : First(fetchRejects(1, message))
    \/ \E date \in Clock, id \in Clock : First(jsonResolves(1, date, id))
    \/ \E message \in JsonErrors : First(jsonRejects(1, message))

SpecUrl == InitUrl /\ [][NextUrl]_vars

-----------------------------------------------------------------------------
(* The first check of a session, over many bodies.                         *)

AllBodies ==
    {null, Num(42)} \cup
    {Body(st, up, rt, rT, sc, sC, msg) :
        st \in {undefined, null, Str(<<>>), Str(UP), Str(DOWN)},
        up \in {undefined, Bool(TRUE), Bool(FALSE)},
        rt \in {undefined, null, Num(0), Num(5)},
        rT \in {undefined, Num(0), Num(7)},
        sc \in {undefined, Num(200)},
        sC \in {undefined, Num(503)},
        msg \in {undefined, Str(<<>>), Str(<<"o", "k">>)}}

NextMap ==
    \/ \E value \in Texts : First(setUrl(value))
    \/ First(clickCheck)
    \/ \E key \in Keys : First(handleKeyPress(key))
    \/ \E site \in Sites : First(QuickLinkButton(site))
    \/ \E response \in Responses(AllBodies) : First(fetchResolves(1, response))
    \/ \E message \in FetchErrors : First(fetchRejects(1, message))
    \/ \E date \in Clock, id \in Clock : First(jsonResolves(1, date, id))
    \/ \E message \in JsonErrors : First(jsonRejects(1, message))

SpecMap == Init /\ [][NextMap]_vars

\* The quick links: every site of the two columns, clicked over any text of
\* the input field, up to the first result.
AllSites ==
    {popularSitesLeft[i] : i \in 1..Len(popularSitesLeft)}
        \cup {popularSitesRight[i] : i \in 1..Len(popularSitesRight)}

\* Texts of the input field the quick links are clicked over.
QuickTexts ==
    Texts \cup {<<"a", ".", "b">>, HTTP \o <<"a", ".", "b">>, <<":">>}

NextQuick ==
    \/ \E value \in QuickTexts : First(setUrl(value))
    \/ First(clickCheck)
    \/ \E key \in Keys : First(handleKeyPress(key))
    \/ \E site \in AllSites : First(QuickLinkButton(site))
    \/ \E response \in Responses(Bodies) : First(fetchResolves(1, response))
    \/ \E message \in FetchErrors : First(fetchRejects(1, message))
    \/ \E date \in Clock, id \in Clock : First(jsonResolves(1, date, id))
    \/ \E message \in JsonErrors : First(jsonRejects(1, message))

SpecQuick == Init /\ [][NextQuick]_vars

-----------------------------------------------------------------------------
(* Properties.                                                             *)

Min(a, b) == IF a < b THEN a ELSE b

\* A step in which a check builds its display record.
ResultStep == status' # null /\ status' # status

\* A step in which a suspended check ends.
CheckEnds == Len(calls') < Len(calls)

\* C1: after any sequence of checks the history holds at most 5 entries.
HistoryAtMostFive == Len(history) <= 5

\* More results than the history holds have been built, and a later check
\* was rejected or failed.
HistoryOverflowed == results > 5 /\ Len(history) = 5 /\ error # ""

\* C2: the history is the results of the last min(n, 5) checks that built a
\* result, newest first: it holds min(n, 5) entries, a step that builds a
\* result puts it in front of the four newest entries in their order, and no
\* other step changes the history.
HistoryIsLastResults ==
    /\ [](Len(history) = Min(results, 5))
    /\ [][IF ResultStep
          THEN /\ history'[1] = entry(status', history'[1].id)
               /\ Tail(history') = SubSeq(history, 1, Min(Len(history), 4))
          ELSE history' = history]_vars

\* A sixth result has arrived: the five newest remain.
SixthResultArrived == results = 6 /\ Len(history) = 5 /\ status # null

\* ASCII letters.
Letters ==
    {"a", "b", "c", "d", "e", "f", "g", "h", "i", "j", "k", "l", "m", "n",
     "o", "p", "q", "r", "s", "t", "u", "v", "w", "x", "y", "z",
     "A", "B", "C", "D", "E", "F", "G", "H", "I", "J", "K", "L", "M", "N",
     "O", "P", "Q", "R", "S", "T", "U", "V", "W", "X", "Y", "Z"}

\* The text carries a scheme: a letter, then letters, digits, "+", "-" or
\* ".", then "://".
hasScheme(x) ==
    \E k \in 1..Len(x) :
        /\ x[1] \in Letters
        /\ \A j \in 1..k : x[j] \in Letters \cup Digits \cup {"+", "-", "."}
        /\ Len(x) >= k + 3
        /\ SubSeq(x, k + 1, k + 3) = <<":", "/", "/">>

startsWithHttp(x) == startsWith(x, HTTP) \/ startsWith(x, HTTPS)

\* C3: validateUrl prepends "https://" exactly when its input has no scheme:
\* an input with a scheme is returned unchanged, an input without one is
\* returned as "https://" followed by the input.  (The inputs are those of
\* the accepted checks, which validateUrl found well-formed.)
PrefixedExactlyWithoutScheme ==
    \A i \in 1..Len(calls) :
        LET x == trim(calls[i].targetUrl)
        IN  calls[i].validatedUrl = IF hasScheme(x) THEN x ELSE HTTPS \o x

\* The text of the input field is rejected by checkWebsite.
Rejected(text) == trim(text) = <<>> \/ validateUrl(trim(text)) = null

\* C4: a check of an empty, blank or ill-formed text sets an error message,
\* sends no request and leaves loading, the displayed result and the history
\* unchanged.  (With such a text in the field, a step that keeps the text is
\* a check of it.)
RejectionLeavesStateAlone ==
    [][(~loading /\ Rejected(url) /\ url' = url) =>
            /\ error' # ""
            /\ UNCHANGED <<loading, status, history, calls, results>>]_vars

\* A text was rejected while a result is displayed and the history holds it.
RejectedWithResultShown ==
    /\ error = "Please enter a valid URL"
    /\ status # null
    /\ Len(history) > 0
    /\ ~loading

\* C5: the URL in the payload of every request is the validated form of the
\* trimmed input and begins with "http://" or "https://"; so does every url
\* of the displayed result and of the history; and the record a check builds
\* carries the url of the payload that check sent.
UrlIsValidatedInput ==
    /\ [](\A i \in 1..Len(calls) :
            /\ validateUrl(trim(calls[i].targetUrl)) = Str(calls[i].validatedUrl)
            /\ \A k \in 1..Len(calls[i].sent) :
                    /\ calls[i].sent[k].url = calls[i].validatedUrl
                    /\ startsWithHttp(calls[i].sent[k].url))
    /\ [](status # null => startsWithHttp(status.url))
    /\ [](\A k \in 1..Len(history) : startsWithHttp(history[k].url))
    /\ [][ResultStep =>
            \E i \in 1..Len(calls) :
                /\ calls[i].pc = "json"
                /\ calls' = remove(calls, i)
                /\ status'.url = calls[i].sent[1].url
                /\ history'[1].url = calls[i].sent[1].url]_vars

\* The result of a padded text without a scheme: trimmed and prefixed.
ResultOfPaddedText ==
    /\ status # null
    /\ trim(url) # url
    /\ ~startsWithHttp(trim(url))
    /\ status.url = HTTPS \o trim(url)
    /\ history[1].url = status.url

\* C6: every accepted check calls fetch exactly once: a suspended check has
\* sent one request, a check that ends leaves the others as they are, and no
\* request is added while one is outstanding or when a check fails.
OneCallPerCheck ==
    /\ [](\A i \in 1..Len(calls) : Len(calls[i].sent) = 1)
    /\ [][CheckEnds => calls' \in {remove(calls, i) : i \in 1..Len(calls)}]_vars
    /\ [][calls # <<>> => Len(calls') <= Len(calls)]_vars

\* A check failed at the network and nothing is outstanding.
FailedAndIdle ==
    /\ error = failed("Failed to fetch")
    /\ calls = <<>>
    /\ ~loading

\* The messages a failed check can end with.
FailureMessages ==
    {failed(m) : m \in FetchErrors \cup JsonErrors \cup {nullError}} \cup
    {failed(httpError([status |-> s])) : s \in Statuses \ (200..299)}

\* C7 as stated: every check that called fetch ends by building a display
\* record and adding it to the history, whether the call succeeded or failed.
EveryCheckAddsRecord ==
    [][CheckEnds =>
            /\ status' # null
            /\ history' # <<>>
            /\ history'[1] = entry(status', history'[1].id)
            /\ Tail(history') = SubSeq(history, 1, Min(Len(history), 4))]_vars

\* C7, amended: a check that called fetch ends in one of two ways.  When the
\* response is OK and its body parses to a value other than null, the check
\* builds a display record for its URL, displays it and puts it in front of
\* the history.  When fetch fails, the status is not OK, the body cannot be
\* parsed or the body is null, the check sets a "Failed to check website"
\* message and leaves the displayed result and the history unchanged.
CheckEndsInRecordOrError ==
    [][CheckEnds =>
        \E i \in 1..Len(calls) :
            /\ calls' = remove(calls, i)
            /\ ~loading'
            /\ \/ /\ calls[i].pc = "json"
                  /\ calls[i].response.body # null
                  /\ error' = ""
                  /\ status' # null
                  /\ status'.url = calls[i].validatedUrl
                  /\ history'[1] = entry(status', history'[1].id)
                  /\ Tail(history') = SubSeq(history, 1, Min(Len(history), 4))
               \/ /\ error' \in FailureMessages
                  /\ status' = status
                  /\ history' = history]_vars

\* A check failed on a non-OK status after earlier checks had built results,
\* which the history still holds.
FailedWithHistoryKept ==
    /\ error = failed("HTTP error! status: 500")
    /\ status = null
    /\ Len(history) >= 2
    /\ ~loading

\* C8: at most one check is in flight: whatever the user does and whenever
\* the responses arrive, no check starts while another is suspended.
AtMostOneInFlight == Len(calls) <= 1

\* A check is in flight after earlier checks have ended.
InFlightAfterEarlierChecks ==
    /\ Len(calls) = 1
    /\ calls[1].pc = "fetch"
    /\ loading
    /\ Len(history) >= 1

\* Values that || and ?: take as false.
Falsy == {undefined, null, Str(<<>>), Num(0), Bool(FALSE)}

RecordFields ==
    {"url", "status", "responseTime", "timestamp", "statusCode", "message"}

\* A step in which response.json() of call i settles with a value.
JsonSettles(i) ==
    /\ calls[i].pc = "json"
    /\ calls' = remove(calls, i)
    /\ error' \notin {failed(m) : m \in JsonErrors}

\* C9 as stated: every parsed body is mapped into a record with the six
\* fields; status is the status field when it is present and non-empty, else
\* UP or DOWN by is_up; responseTime is response_time when it is present,
\* else responseTime when it is present, else 0; message is the message field
\* when it is present, else the empty string.
MapsEveryBody ==
    [][\A i \in 1..Len(calls) : JsonSettles(i) =>
        LET data == calls[i].response.body
            st == get(data, "status")
            rt == get(data, "response_time")
            rT == get(data, "responseTime")
            msg == get(data, "message")
        IN  /\ status' # null
            /\ DOMAIN status' = RecordFields
            /\ status'.url = calls[i].validatedUrl
            /\ status'.status =
                    IF st # undefined /\ st # Str(<<>>) THEN st
                    ELSE IF Truthy(get(data, "is_up")) THEN Str(UP) ELSE Str(DOWN)
            /\ status'.responseTime =
                    IF rt # undefined THEN rt
                    ELSE IF rT # undefined THEN rT ELSE Num(0)
            /\ status'.message = IF msg # undefined THEN msg ELSE Str(<<>>)]_vars

\* C9, amended: a parsed body other than null is mapped into a record with
\* the six fields; status is the status field unless that is absent, null,
\* empty, 0 or false, and then UP when is_up is true and DOWN otherwise;
\* responseTime is response_time unless that is absent, null, 0, empty or
\* false, else responseTime under the same condition, else 0; message is the
\* message field unless that is absent, null, empty, 0 or false, and then
\* the empty string.  A null body builds no record: the check ends with the
\* "Failed to check website" message.
MapsNonNullBody ==
    [][\A i \in 1..Len(calls) : JsonSettles(i) =>
        LET data == calls[i].response.body
            st == get(data, "status")
            rt == get(data, "response_time")
            rT == get(data, "responseTime")
            msg == get(data, "message")
        IN  IF data = null
            THEN /\ status' = null
                 /\ error' = failed(nullError)
                 /\ history' = history
            ELSE /\ status' # null
                 /\ DOMAIN status' = RecordFields
                 /\ status'.url = calls[i].validatedUrl
                 /\ status'.status =
                        IF st \notin Falsy THEN st
                        ELSE IF get(data, "is_up") = Bool(TRUE)
                             THEN Str(UP) ELSE Str(DOWN)
                 /\ status'.responseTime =
                        IF rt \notin Falsy THEN rt
                        ELSE IF rT \notin Falsy THEN rT ELSE Num(0)
                 /\ status'.message =
                        IF msg \notin Falsy THEN msg ELSE Str(<<>>)]_vars

\* A record whose status and responseTime come from the fallbacks is_up and
\* responseTime, and whose message is the default.
RecordFromFallbacks ==
    /\ status # null
    /\ status.status = Str(UP)
    /\ status.responseTime = Num(7)
    /\ status.statusCode = Num(503)
    /\ status.message = Str(<<>>)

\* C10: every check that sets loading eventually clears it, however the
\* request turns out, and loading is set only while a check is suspended.
LoadingIsCleared ==
    /\ [](loading => calls # <<>>)
    /\ (loading ~> ~loading)

\* loading has been cleared after a body that could not be parsed.
ClearedAfterBadBody ==
    /\ ~loading
    /\ calls = <<>>
    /\ error = failed("Unexpected token < in JSON at position 0")

\* C11: the page is in exactly one of the states idle, loading, result and
\* error: of loading, a displayed result and a displayed error message at
\* most one holds (idle is the state in which none does), so an error
\* message and a result are never displayed together.
OnePresentationState ==
    /\ ~(loading /\ status # null)
    /\ ~(loading /\ error # "")
    /\ ~(error # "" /\ status # null)

\* C12: a check that ends without a result, because fetch failed, the status
\* was not OK or the body could not be parsed, ends in the error state: a
\* "Failed to check website" message is set, no result is displayed and
\* loading is cleared; and a check whose fetch has not returned an OK
\* response never ends with a result.
FailureEndsInErrorState ==
    [][CheckEnds =>
        /\ (\A i \in 1..Len(calls) : calls[i].pc = "fetch") => ~ResultStep
        /\ ~ResultStep =>
                /\ error' \in FailureMessages
                /\ error' # ""
                /\ status' = null
                /\ ~loading']_vars

\* A check failed at the network after an earlier check had shown a result:
\* the error is displayed and no result is.
FailedAfterResult ==
    /\ error = failed("Failed to fetch")
    /\ status = null
    /\ ~loading
    /\ results >= 1

\* C13: while loading is set, no result and no error message is displayed.
LoadingShowsNothingStale == loading => (status = null /\ error = "")

\* A check is in flight after an earlier check had shown a result.
LoadingAfterResult ==
    /\ loading
    /\ calls # <<>>
    /\ results >= 1
    /\ history # <<>>

\* C14: whenever a result is displayed, the history is not empty and its
\* first entry carries the fields of the displayed result.
DisplayedResultHeadsHistory ==
    status # null =>
        /\ history # <<>>
        /\ \A f \in RecordFields : history[1][f] = status[f]

\* A result is displayed above an older entry for another URL.
ResultAboveOlderEntry ==
    /\ status # null
    /\ Len(history) >= 2
    /\ history[2].url # status.url

\* C15: a click on a quick link starts a check of the site's URL whatever the
\* input field holds, and puts the site's URL into the input field; a check
\* started by the button or the Enter key checks the text of the input
\* field and leaves it as it is.
QuickLinkChecksSite ==
    [][/\ \A site \in AllSites :
            QuickLinkButton(site) =>
                /\ url' = site
                /\ loading'
                /\ Len(calls') = Len(calls) + 1
                /\ calls'[Len(calls')].targetUrl = site
                /\ calls'[Len(calls')].sent = <<[url |-> HTTPS \o site]>>
       /\ ((clickCheck \/ handleKeyPress("Enter")) /\ calls' # calls) =>
                /\ url' = url
                /\ calls'[Len(calls')].targetUrl = url
                /\ calls'[Len(calls')].sent = <<[url |-> addProtocol(trim(url))]>>
      ]_vars

\* The check of a quick link is in flight: the site's URL is in the input field
\* and was sent, and no text the user types is this URL.
QuickLinkInFlight ==
    /\ loading
    /\ calls # <<>>
    /\ GITHUB \notin QuickTexts
    /\ url = GITHUB
    /\ calls[1].targetUrl = GITHUB
    /\ calls[1].sent = <<[url |-> HTTPS \o GITHUB]>>

\* C16: validateUrl is idempotent on the inputs it accepts: applied to its
\* own result it returns that result, both for the URL an accepted check
\* validated and for the text of the input field as it stands.
ValidateUrlIdempotent ==
    /\ \A i \in 1..Len(calls) :
            validateUrl(calls[i].validatedUrl) = Str(calls[i].validatedUrl)
    /\ LET x == validateUrl(url)
       IN  x # null => validateUrl(x.v) = x

\* A check is in flight for a text without a scheme: validateUrl prefixed
\* it, and accepted the prefixed URL.
PrefixedOnceInFlight ==
    /\ calls # <<>>
    /\ ~startsWith(trim(calls[1].targetUrl), HTTP)
    /\ ~startsWith(trim(calls[1].targetUrl), HTTPS)
    /\ calls[1].validatedUrl = HTTPS \o trim(calls[1].targetUrl)
    /\ validateUrl(calls[1].validatedUrl) # null

====
